---- MODULE Spec2Model ----
(***************************************************************************)
(* A model of the connection-proxy engines of go-tcp-proxy and of the AMQP *)
(* frame codec they use.                                                   *)
(*                                                                         *)
(* Four engines share one life cycle (Start, err, pipe):                   *)
(*   "Proxy"      src/proxy.go        (TLS unwrap, request/response mirror)*)
(*   "AMQPProxy"  src/amqpproxy.go    (TLS unwrap, Ack -> Nack rewrite)    *)
(*   "ProxyV1"    src/proxy/proxy.go  (plain relay)                        *)
(*   "mainproxy"  src/amqpproxy.go, second file (type proxy of the older   *)
(*                main program)                                            *)
(* One engine is modelled: the goroutine running Start and the two relay   *)
(* goroutines it launches.  errsig is an unbuffered channel, so a send     *)
(* completes only together with Start's receive.                           *)
(*                                                                         *)
(* p.erred and the byte counters are read and written without any lock.    *)
(* Every access is a step of its own, so each value such a read can return *)
(* is the value of some interleaving: a read that misses a write made just *)
(* before it is the interleaving in which the read comes first.            *)
(*                                                                         *)
(* Not part of the engine's state: the Nagle setting, the Info/Debug/Trace *)
(* lines and the Matcher, none of which changes what is modelled there.    *)
(*                                                                         *)
(* Specifications:                                                         *)
(*   Spec, FairSpec  one engine of any of the four kinds                   *)
(*   AmqpSpec        one AMQPProxy whose peers send frames, cut and        *)
(*                   damaged frames and other bytes                        *)
(*   CodecSpec       methodFrame.write, ReadFrame and                      *)
(*                   UpdateMethodAckToNack applied to one frame            *)
(*   MainSpec        main of cmd/tcp-proxy: createMatcher, createReplacer, *)
(*                   the accept loop and the engines it starts             *)
(***************************************************************************)
EXTENDS Integers, Sequences, FiniteSets, TLC

(* ------------------------------ bounds --------------------------------- *)

\* Chunks read from the two sources of one engine, both directions together.
MaxChunks == 2

\* Connections main accepts.
MaxConns == 2

\* Chunks the engines of the main program read, all together.
MaxMainChunks == 1

\* Length of the read buffer of a relay task (0xffff in the code), scaled so
\* that it still holds one method frame plus one more byte.
BuffLen == 22

(* ------------------------------ bytes ---------------------------------- *)

RECURSIVE BigEndian(_, _)
\* encoding/binary.BigEndian: the k low-order bytes of x, most significant first.
BigEndian(x, k) ==
    IF k = 0 THEN <<>> ELSE Append(BigEndian(x \div 256, k - 1), x % 256)

RECURSIVE Uint(_)
\* encoding/binary.BigEndian.UintNN: the number a byte string spells.
Uint(s) ==
    IF Len(s) = 0 THEN 0 ELSE Uint(SubSeq(s, 1, Len(s) - 1)) * 256 + s[Len(s)]

RECURSIVE Flatten(_)
\* The byte stream a sequence of writes delivers.
Flatten(cs) == IF Len(cs) = 0 THEN <<>> ELSE cs[1] \o Flatten(Tail(cs))

(* --------------------------- frame codec ------------------------------- *)

frameMethod == 1
frameHeader == 2
frameBody == 3
frameHeartbeat == 8
frameEnd == 206

NoMethod == [kind |-> "nil"]
NoFrame == [kind |-> "nil"]

\* BasicAck.id / BasicNack.id
MethodIdOf(m) ==
    IF m.kind = "BasicAck" THEN <<60, 80>> ELSE <<60, 120>>

\* BasicAck.write: delivery tag (8 bytes), then the flag byte.
BasicAck_write(m) ==
    BigEndian(m.DeliveryTag, 8) \o <<IF m.Multiple THEN 1 ELSE 0>>

\* Fault: Multiple and Requeue are written as one byte each.
BasicNack_write_TwoFlagBytes(m) ==
    BigEndian(m.DeliveryTag, 8)
        \o <<IF m.Multiple THEN 1 ELSE 0, IF m.Requeue THEN 1 ELSE 0>>

\* BasicNack.write: delivery tag, then bit 0 = Multiple, bit 1 = Requeue.
BasicNack_write(m) ==
    BigEndian(m.DeliveryTag, 8)
        \o <<(IF m.Multiple THEN 1 ELSE 0) + (IF m.Requeue THEN 2 ELSE 0)>>

\* BasicAck.read from the bytes at position i (1-based) of s: 9 bytes or an
\* error when the input ends early.
BasicAck_read(s, i) ==
    IF Len(s) < i + 8
    THEN [err |-> "EOF", m |-> NoMethod]
    ELSE [err |-> "nil",
          m |-> [kind |-> "BasicAck",
                 DeliveryTag |-> Uint(SubSeq(s, i, i + 7)),
                 Multiple |-> (s[i + 8] % 2 = 1)]]

\* Fault: the size field counts the message only, not the class and method
\* ids written in front of it.
writeFrame_SizeOfMessage(typ, channel, payload) ==
    << <<typ>> \o BigEndian(channel, 2) \o BigEndian(Len(payload) - 4, 4),
       payload,
       <<frameEnd>> >>

\* writeFrame: the three writes (header, payload, end marker) it performs.
writeFrame(typ, channel, payload) ==
    << <<typ>> \o BigEndian(channel, 2) \o BigEndian(Len(payload), 4),
       payload,
       <<frameEnd>> >>

\* methodFrame.write: the parts written for a method frame (Method non-nil).
methodFrame_write(f) ==
    LET id == MethodIdOf(f.Method)
        body == IF f.Method.kind = "BasicAck"
                THEN BasicAck_write(f.Method)
                ELSE BasicNack_write(f.Method)
    IN  writeFrame(frameMethod, f.ChannelId,
                   BigEndian(id[1], 2) \o BigEndian(id[2], 2) \o body)

\* FrameReader.parseMethodFrame on the bytes of s that follow the 7-byte
\* header; the size field is not consulted by the code.
parseMethodFrame(s, channel) ==
    IF Len(s) < 11
    THEN [err |-> "EOF", f |-> NoFrame]
    ELSE LET class == Uint(SubSeq(s, 8, 9))
             method == Uint(SubSeq(s, 10, 11))
         IN  IF class # 60
             THEN [err |-> "unknown class", f |-> NoFrame]
             ELSE IF method # 80
             THEN [err |-> "unknown method", f |-> NoFrame]
             ELSE LET r == BasicAck_read(s, 12)
                  IN  IF r.err # "nil"
                      THEN [err |-> r.err, f |-> NoFrame]
                      ELSE [err |-> "nil",
                            f |-> [kind |-> "method", ChannelId |-> channel,
                                   ClassId |-> class, MethodId |-> method,
                                   Method |-> r.m]]

\* Fault: the byte after a method frame is read but not compared with the
\* end marker.
ReadFrame_NoEndCheck(s) ==
    IF Len(s) < 7
    THEN [err |-> "EOF", f |-> NoFrame]
    ELSE LET typ == s[1]
             channel == Uint(SubSeq(s, 2, 3))
         IN  IF typ = frameMethod
             THEN LET p == parseMethodFrame(s, channel)
                  IN  IF p.err # "nil" THEN p
                      ELSE IF Len(s) < 21 THEN [err |-> "EOF", f |-> p.f]
                      ELSE p
             ELSE IF typ \in {frameHeader, frameBody, frameHeartbeat}
             THEN [err |-> "ignore", f |-> NoFrame]
             ELSE [err |-> "frame could not be parsed", f |-> NoFrame]

\* FrameReader.ReadFrame on the byte string s the reader is built on.
ReadFrame(s) ==
    IF Len(s) < 7
    THEN [err |-> "EOF", f |-> NoFrame]
    ELSE LET typ == s[1]
             channel == Uint(SubSeq(s, 2, 3))
         IN  IF typ = frameMethod
             THEN LET p == parseMethodFrame(s, channel)
                  IN  IF p.err # "nil" THEN p
                      ELSE IF Len(s) < 21 THEN [err |-> "EOF", f |-> p.f]
                      ELSE IF s[21] # frameEnd
                      THEN [err |-> "frameEnd fail", f |-> p.f]
                      ELSE p
             ELSE IF typ \in {frameHeader, frameBody, frameHeartbeat}
             THEN [err |-> "ignore", f |-> NoFrame]
             ELSE [err |-> "frame could not be parsed", f |-> NoFrame]

\* The number of bytes ReadFrame takes from its reader on the byte string
\* s: the 7 header bytes, for a method frame the class and method ids and
\* the message of a known method, then the end byte; all of s when s ends
\* inside one of these reads.
BytesRead(s) ==
    IF Len(s) < 7 THEN Len(s)
    ELSE IF s[1] # frameMethod THEN 7
    ELSE IF Len(s) < 11 THEN Len(s)
    ELSE IF Uint(SubSeq(s, 8, 9)) # 60 \/ Uint(SubSeq(s, 10, 11)) # 80
    THEN 11
    ELSE IF Len(s) < 21 THEN Len(s)
    ELSE 21

\* Fault: the message is replaced but the method id field keeps 80.
UpdateMethodAckToNack_KeepsId(f) ==
    IF f.kind = "method" /\ f.Method.kind = "BasicAck"
    THEN [f EXCEPT !.Method = [kind |-> "BasicNack",
                               DeliveryTag |-> f.Method.DeliveryTag,
                               Multiple |-> f.Method.Multiple,
                               Requeue |-> FALSE]]
    ELSE f

\* FrameReader.UpdateMethodAckToNack on the frame the reader holds.
UpdateMethodAckToNack(f) ==
    IF f.kind = "method" /\ f.Method.kind = "BasicAck"
    THEN [f EXCEPT !.MethodId = 120,
                   !.Method = [kind |-> "BasicNack",
                               DeliveryTag |-> f.Method.DeliveryTag,
                               Multiple |-> f.Method.Multiple,
                               Requeue |-> FALSE]]
    ELSE f

(* --------------------------- configuration ----------------------------- *)

Variants == {"Proxy", "AMQPProxy", "ProxyV1", "mainproxy"}
Tasks == {"l2r", "r2l"}
Procs == {"start"} \cup Tasks
Conns == {"lconn", "rconn", "mReqConn", "mRespConn"}

NilFunc == [kind |-> "nil"]

\* The Replacer values an engine is run with: absent, or what createReplacer
\* builds from 'a~xx' (every byte 'a' becomes "xx").
Replacers == {NilFunc, [kind |-> "regexp", re |-> 97, repl |-> <<120, 120>>]}

\* One BasicAck method frame on channel 1 as a client sends it.
AckFrame ==
    Flatten(methodFrame_write(
        [kind |-> "method", ChannelId |-> 1, ClassId |-> 60, MethodId |-> 80,
         Method |-> [kind |-> "BasicAck", DeliveryTag |-> 42,
                     Multiple |-> FALSE]]))

\* What one Read can return.  To the plain engines a chunk is text of some
\* length; to AMQPProxy it is text, a whole method frame, or the first 7
\* bytes of a frame.
Chunks(v) ==
    IF v = "AMQPProxy"
    THEN {<<97, 98>>, AckFrame, SubSeq(AckFrame, 1, 7)}
    ELSE {<<97, 98>>, <<99>>}

RECURSIVE ReplaceAll(_, _, _)
\* regexp.ReplaceAll for a one-byte literal pattern.
ReplaceAll(input, re, repl) ==
    IF Len(input) = 0 THEN <<>>
    ELSE (IF input[1] = re THEN repl ELSE <<input[1]>>)
             \o ReplaceAll(Tail(input), re, repl)

(* ------------------------------- state --------------------------------- *)

VARIABLES
    variant,        \* which engine this is
    tlsUnwrapp,     \* p.tlsUnwrapp
    mReqAddr,       \* p.mReqAddr != nil
    mRespAddr,      \* p.mRespAddr != nil
    Replacer,       \* p.Replacer
    Matcher,        \* p.Matcher
    pc,             \* position of Start and of the two relay goroutines
    defers,         \* Start's deferred Close calls, next to run first
    dial,           \* outcome of each dial: "pending", "ok" or "failed"
    conn,           \* each connection: "nil", "open" or "closed"
    closes,         \* number of Close calls made on each connection
    erred,          \* p.erred
    sigAttempts,    \* goroutines that have reached the send p.errsig <- true
    perr,           \* the error each goroutine passes to err()
    warns,          \* number of Log.Warn lines
    sentBytes,      \* p.sentBytes
    receivedBytes,  \* p.receivedBytes
    summary,        \* the counters as Start read them for "Closed (...)"
    buff,           \* the read buffer of each relay task
    n,              \* the local n of each relay task
    b,              \* the local b of each relay task
    fr,             \* the frame held by the task's FrameReader
    srcIn,          \* chunks each task has read from its source
    dstOut,         \* writes each task has delivered to its destination
    mirOut,         \* writes each task has delivered to its mirror
    matched,        \* the chunks each task has called the Matcher with
    feed,           \* the chunks the peers of this engine may send
    \* the codec on its own: one frame written, read back and rewritten
    cpc,            \* position of the codec run
    mf,             \* the frame handed to methodFrame.write
    wire,           \* the bytes methodFrame.write has produced
    rf,             \* FrameReader.f
    rerr,
    taken,          \* bytes ReadFrame has taken from its reader
    out,            \* what FrameReader.Write has written
           \* the error of methodFrame.write / ReadFrame
    \* the main program: its flags, its accept loop and the engines it starts
    mainPc,         \* position of main: "config", then "accept" for ever
    match,          \* the -match flag
    replace,        \* the -replace flag
    matcher,        \* what createMatcher returned
    replacer,       \* what createReplacer returned
    connid,         \* the global connid
    acceptFailed,   \* whether AcceptTCP has returned an error so far
    engines,        \* the engines started, in the order of their connections
    hstate          \* every connection of the process: "nil", "open", "closed"

engine == <<variant, tlsUnwrapp, mReqAddr, mRespAddr, Replacer, pc, defers,
            dial, conn, closes, erred, sigAttempts, perr, warns, sentBytes,
            receivedBytes, summary, buff, n, b, fr, srcIn, dstOut, mirOut,
            Matcher, matched,
            feed>>
codec == <<cpc, mf, wire, rf, rerr, taken, out>>
listener == <<mainPc, match, replace, matcher, replacer, connid, acceptFailed,
              engines, hstate>>
vars == <<engine, codec, listener>>

config == <<variant, tlsUnwrapp, mReqAddr, mRespAddr, Replacer, Matcher,
            feed>>
locals == <<buff, n, b, fr>>
streams == <<srcIn, dstOut, mirOut, matched>>
counters == <<sentBytes, receivedBytes>>

src(t) == IF t = "l2r" THEN "lconn" ELSE "rconn"
dst(t) == IF t = "l2r" THEN "rconn" ELSE "lconn"
mirror(t) == IF t = "l2r" THEN "mReqConn" ELSE "mRespConn"

\* Fault: both relay tasks take themselves for the local one.
islocal_Always(t) == TRUE

\* islocal := src == p.lconn
islocal(t) == src(t) = "lconn"

\* No codec run on its own.
CodecOff ==
    /\ cpc = "off"
    /\ mf = NoFrame
    /\ wire = <<>>
    /\ rf = NoFrame
    /\ rerr = "nil"
    /\ taken = 0
    /\ out = <<>>

\* The connections of the main program: the k-th accepted connection and
\* the remote connection dialed for it.
Accepted(k) == 2 * k - 1
Dialed(k) == 2 * k
Handles == 1..(2 * MaxConns)

\* No main program around the engine.
MainOff ==
    /\ mainPc = "off"
    /\ match = <<>>
    /\ replace = <<>>
    /\ matcher = NilFunc
    /\ replacer = NilFunc
    /\ connid = 0
    /\ acceptFailed = FALSE
    /\ engines = <<>>
    /\ hstate = [h \in Handles |-> "nil"]

\* The engine as its constructor leaves it: it owns the accepted local
\* connection, nothing is dialed, no goroutine runs.
Constructed ==
    /\ pc = [p \in Procs |-> IF p = "start" THEN "dial" ELSE "idle"]
    /\ defers = <<>>
    /\ dial = [c \in Conns \ {"lconn"} |-> "pending"]
    /\ conn = [c \in Conns |-> IF c = "lconn" THEN "open" ELSE "nil"]
    /\ closes = [c \in Conns |-> 0]
    /\ erred = FALSE
    /\ sigAttempts = {}
    /\ perr = [p \in Procs |-> "nil"]
    /\ warns = 0
    /\ sentBytes = 0
    /\ receivedBytes = 0
    /\ summary = <<>>
    /\ buff = [t \in Tasks |-> [i \in 1..BuffLen |-> 0]]
    /\ n = [t \in Tasks |-> 0]
    /\ b = [t \in Tasks |-> <<>>]
    /\ fr = [t \in Tasks |-> NoFrame]
    /\ srcIn = [t \in Tasks |-> <<>>]
    /\ dstOut = [t \in Tasks |-> <<>>]
    /\ mirOut = [t \in Tasks |-> <<>>]
    /\ matched = [t \in Tasks |-> <<>>]

\* New / NewTLSUnwrapped / NewAMQP / NewAMQPTLSUnwrapped / the proxy literal
\* of the older main: the engine owns the accepted local connection.
Init ==
    /\ variant \in Variants
    /\ tlsUnwrapp \in (IF variant \in {"Proxy", "AMQPProxy"}
                       THEN BOOLEAN ELSE {FALSE})
    /\ mReqAddr \in (IF variant = "Proxy" THEN BOOLEAN ELSE {FALSE})
    /\ mRespAddr \in (IF variant = "Proxy" THEN BOOLEAN ELSE {FALSE})
    /\ Replacer \in Replacers
    /\ Matcher = NilFunc
    /\ feed = Chunks(variant)
    /\ Constructed
    /\ CodecOff
    /\ MainOff

\* A frame whose end marker is not 0xCE, a frame followed by one more byte,
\* and a heartbeat frame.
BadEndFrame == [AckFrame EXCEPT ![Len(AckFrame)] = 0]
AckThenByte == AckFrame \o <<97>>
Heartbeat == <<frameHeartbeat, 0, 0, 0, 0, 0, 0, frameEnd>>

\* What one Read of AMQPProxy.pipe can return when the peers speak AMQP and
\* the stream is cut into chunks anywhere.
AmqpChunks ==
    Chunks("AMQPProxy") \cup {BadEndFrame, AckThenByte, Heartbeat}

\* The Matcher values an engine is run with: absent, or what createMatcher
\* builds from 'a'.
Matchers == {NilFunc, [kind |-> "regexp", re |-> 97]}

\* New, with any Matcher, Replacer and mirrors.
ProxyInit ==
    /\ variant = "Proxy"
    /\ tlsUnwrapp = FALSE
    /\ mReqAddr \in BOOLEAN
    /\ mRespAddr \in BOOLEAN
    /\ Replacer \in Replacers
    /\ Matcher \in Matchers
    /\ feed = Chunks(variant)
    /\ Constructed
    /\ CodecOff
    /\ MainOff

\* NewAMQP
AmqpInit ==
    /\ variant = "AMQPProxy"
    /\ tlsUnwrapp = FALSE
    /\ mReqAddr = FALSE
    /\ mRespAddr = FALSE
    /\ Replacer \in Replacers
    /\ Matcher = NilFunc
    /\ feed = AmqpChunks
    /\ Constructed
    /\ CodecOff
    /\ MainOff

(* ------------------------------- Start --------------------------------- *)

\* Fault: every engine reports a failed remote dial through err().
DialFailureCallsErr_Always(v) == TRUE

\* Whether Start reports a failed remote dial through err() (the older
\* engines) or through Log.Warn (Proxy, AMQPProxy).
DialFailureCallsErr(v) == v \in {"ProxyV1", "mainproxy"}

\* Fault: defer p.rconn.Close() left out.
DefersAfterRemoteDial_NoRemote == <<"lconn">>

\* The Close calls deferred once the remote dial has succeeded, next to run
\* first: defer p.lconn.Close() ... defer p.rconn.Close().
DefersAfterRemoteDial == <<"rconn", "lconn">>

\* Fault: the mirror's Close is not deferred.
DeferMirrorClose_Forgotten(c, d) == d

\* defer p.mReqConn.Close() / defer p.mRespConn.Close() on top of the
\* deferred calls d.
DeferMirrorClose(c, d) == <<c>> \o d

\* Where a goroutine goes when its call of err() returns: Start returns (and
\* runs its deferred calls), a relay task leaves pipe.
AfterErr(p) == IF p = "start" THEN "return" ELSE "exited"

\* defer p.lconn.Close(), then the remote dial (tls.Dial or net.DialTCP).
Start_Dial ==
    /\ pc["start"] = "dial"
    /\ \E dialer \in (IF tlsUnwrapp THEN {"tls.Dial"} ELSE {"net.DialTCP"}),
          ok \in BOOLEAN :
         IF ok
         THEN /\ dial' = [dial EXCEPT !["rconn"] = "ok"]
              /\ conn' = [conn EXCEPT !["rconn"] = "open"]
              /\ defers' = DefersAfterRemoteDial
              /\ pc' = [pc EXCEPT !["start"] =
                            IF variant = "Proxy" THEN "dial_mreq" ELSE "go_local"]
              /\ UNCHANGED <<perr, warns>>
         ELSE /\ dial' = [dial EXCEPT !["rconn"] = "failed"]
              /\ defers' = <<"lconn">>
              /\ UNCHANGED conn
              /\ IF DialFailureCallsErr(variant)
                 THEN /\ perr' = [perr EXCEPT !["start"] = "other"]
                      /\ pc' = [pc EXCEPT !["start"] = "err_check"]
                      /\ UNCHANGED warns
                 ELSE /\ warns' = warns + 1
                      /\ pc' = [pc EXCEPT !["start"] = "return"]
                      /\ UNCHANGED perr
    /\ UNCHANGED <<config, codec, listener, closes, erred, sigAttempts, counters, summary,
                   locals, streams>>

\* if p.mReqAddr != nil { dial the request mirror }
Start_DialMirrorReq ==
    /\ pc["start"] = "dial_mreq"
    /\ IF ~mReqAddr
       THEN /\ pc' = [pc EXCEPT !["start"] = "dial_mresp"]
            /\ UNCHANGED <<dial, conn, defers, warns>>
       ELSE \E ok \in BOOLEAN :
              IF ok
              THEN /\ dial' = [dial EXCEPT !["mReqConn"] = "ok"]
                   /\ conn' = [conn EXCEPT !["mReqConn"] = "open"]
                   /\ defers' = DeferMirrorClose("mReqConn", defers)
                   /\ pc' = [pc EXCEPT !["start"] = "dial_mresp"]
                   /\ UNCHANGED warns
              ELSE /\ dial' = [dial EXCEPT !["mReqConn"] = "failed"]
                   /\ warns' = warns + 1
                   /\ pc' = [pc EXCEPT !["start"] = "return"]
                   /\ UNCHANGED <<conn, defers>>
    /\ UNCHANGED <<config, codec, listener, closes, erred, sigAttempts, perr, counters,
                   summary, locals, streams>>

\* if p.mRespAddr != nil { dial the response mirror }
Start_DialMirrorResp ==
    /\ pc["start"] = "dial_mresp"
    /\ IF ~mRespAddr
       THEN /\ pc' = [pc EXCEPT !["start"] = "go_local"]
            /\ UNCHANGED <<dial, conn, defers, warns>>
       ELSE \E ok \in BOOLEAN :
              IF ok
              THEN /\ dial' = [dial EXCEPT !["mRespConn"] = "ok"]
                   /\ conn' = [conn EXCEPT !["mRespConn"] = "open"]
                   /\ defers' = DeferMirrorClose("mRespConn", defers)
                   /\ pc' = [pc EXCEPT !["start"] = "go_local"]
                   /\ UNCHANGED warns
              ELSE /\ dial' = [dial EXCEPT !["mRespConn"] = "failed"]
                   /\ warns' = warns + 1
                   /\ pc' = [pc EXCEPT !["start"] = "return"]
                   /\ UNCHANGED <<conn, defers>>
    /\ UNCHANGED <<config, codec, listener, closes, erred, sigAttempts, perr, counters,
                   summary, locals, streams>>

\* go p.pipe(p.lconn, p.rconn, ...)
Start_GoLocal ==
    /\ pc["start"] = "go_local"
    /\ pc' = [pc EXCEPT !["start"] = "go_remote", !["l2r"] = "read"]
    /\ UNCHANGED <<config, codec, listener, defers, dial, conn, closes, erred, sigAttempts,
                   perr, warns, counters, summary, locals, streams>>

\* go p.pipe(p.rconn, p.lconn, ...)
Start_GoRemote ==
    /\ pc["start"] = "go_remote"
    /\ pc' = [pc EXCEPT !["start"] = "wait", !["r2l"] = "read"]
    /\ UNCHANGED <<config, codec, listener, defers, dial, conn, closes, erred, sigAttempts,
                   perr, warns, counters, summary, locals, streams>>

\* <-p.errsig together with the send p.errsig <- true of one goroutine parked
\* in err(): the channel is unbuffered and Start is its only receiver.
Start_Recv ==
    /\ pc["start"] = "wait"
    /\ \E p \in Procs :
         /\ pc[p] = "err_send"
         /\ pc' = [pc EXCEPT !["start"] = "summary", ![p] = "err_set"]
    /\ UNCHANGED <<config, codec, listener, defers, dial, conn, closes, erred, sigAttempts,
                   perr, warns, counters, summary, locals, streams>>

\* p.Log.Info("Closed (%d bytes sent, %d bytes received)", ...): the counters
\* are read here.
Start_Summary ==
    /\ pc["start"] = "summary"
    /\ summary' = <<sentBytes, receivedBytes>>
    /\ pc' = [pc EXCEPT !["start"] = "return"]
    /\ UNCHANGED <<config, codec, listener, defers, dial, conn, closes, erred, sigAttempts,
                   perr, warns, counters, locals, streams>>

\* Start returns: one deferred Close per step, last deferred first.
Start_Return ==
    /\ pc["start"] = "return"
    /\ Len(defers) > 0
    /\ conn' = [conn EXCEPT ![Head(defers)] = "closed"]
    /\ closes' = [closes EXCEPT ![Head(defers)] = @ + 1]
    /\ defers' = Tail(defers)
    /\ pc' = [pc EXCEPT !["start"] =
                  IF Len(defers) = 1 THEN "returned" ELSE "return"]
    /\ UNCHANGED <<config, codec, listener, dial, erred, sigAttempts, perr, warns, counters,
                   summary, locals, streams>>

(* -------------------------------- err ---------------------------------- *)

\* if p.erred { return }; if err != io.EOF { p.Log.Warn(s, err) }; the
\* goroutine then stands at the send.
err_Check(p) ==
    /\ pc[p] = "err_check"
    /\ IF erred
       THEN /\ pc' = [pc EXCEPT ![p] = AfterErr(p)]
            /\ UNCHANGED <<warns, sigAttempts>>
       ELSE /\ warns' = IF perr[p] # "EOF" THEN warns + 1 ELSE warns
            /\ sigAttempts' = sigAttempts \cup {p}
            /\ pc' = [pc EXCEPT ![p] = "err_send"]
    /\ UNCHANGED <<config, codec, listener, defers, dial, conn, closes, erred, perr, counters,
                   summary, locals, streams>>

\* p.erred = true, after the send has completed; err returns.
err_Set(p) ==
    /\ pc[p] = "err_set"
    /\ erred' = TRUE
    /\ pc' = [pc EXCEPT ![p] = AfterErr(p)]
    /\ UNCHANGED <<config, codec, listener, defers, dial, conn, closes, sigAttempts, perr,
                   warns, counters, summary, locals, streams>>

(* -------------------------------- pipe --------------------------------- *)

ChunksRead == Len(srcIn["l2r"]) + Len(srcIn["r2l"])

\* Fault: with no Replacer the chunk is emptied instead of kept.
ApplyReplacer_NilDrops(r, input) ==
    IF r.kind = "nil" THEN <<>> ELSE ReplaceAll(input, r.re, r.repl)

\* p.Replacer applied to a chunk (absent: the chunk itself).
ApplyReplacer(r, input) ==
    IF r.kind = "nil" THEN input ELSE ReplaceAll(input, r.re, r.repl)

\* The bytes the FrameReader of AMQPProxy.pipe is built on:
\* bufio.NewReader(bytes.NewReader(buff)), the whole read buffer.
FrameInput(t) == buff[t]

\* How many bytes a failing Write may have delivered before its error.
PartialWrites(bs) == {k \in {0, Len(bs) - 1} : k >= 0 /\ k < Len(bs)}

\* Whether pipe has a mirror to write to: mirror != nil.
HasMirror(t) ==
    variant = "Proxy" /\ (IF t = "l2r" THEN mReqAddr ELSE mRespAddr)

\* The step after dst.Write has succeeded.
AfterWrite(t) == IF HasMirror(t) THEN "mirror" ELSE "count"

\* Fault: a failed mirror write is reported through err() like a failed
\* write to dst.
AfterMirrorWrite_Fatal(ok) == IF ok THEN "count" ELSE "err_check"

\* The step after mirror.Write, whether it failed (a warning) or not.
AfterMirrorWrite(ok) == "count"

\* The step after frameReader.Write(dst) failed: p.Log.Warn and return.
AfterFrameWriteError == "exited"

\* Fault: a frame that does not decode ends the relay like an I/O error.
AfterDecodeError_Fatal == "err_check"

\* The step after ReadFrame failed: p.Log.Warn, then the raw write below.
AfterDecodeError == "write"

\* Fault: the plain engines go on to the next read without the write.
AfterRead_NoWrite == IF variant = "AMQPProxy" THEN "frame" ELSE "count"

\* The step after a chunk was read and transformed: AMQPProxy tries to decode
\* a frame, the other engines write.
AfterRead == IF variant = "AMQPProxy" THEN "frame" ELSE "write"

\* Fault: the Matcher is called after the Replacer, with its output.
MatcherInput_AfterReplacer(r, c) == ApplyReplacer(r, c)

\* What p.Matcher is called with: b := buff[:n], the chunk as read, before
\* the Replacer r is applied.
MatcherInput(r, c) == c

\* n, err := src.Read(buff); on an error p.err("Read failed") and return;
\* otherwise b := buff[:n]; if p.Matcher != nil, p.Matcher(b); if
\* p.Replacer != nil, b = p.Replacer(b).
pipe_Read(t) ==
    /\ pc[t] = "read"
    /\ \/ /\ conn[src(t)] = "open"
          /\ ChunksRead < MaxChunks
          /\ \E c \in feed :
               /\ Len(c) <= BuffLen
               /\ buff' = [buff EXCEPT ![t] =
                               c \o SubSeq(buff[t], Len(c) + 1, BuffLen)]
               /\ n' = [n EXCEPT ![t] = Len(c)]
               /\ matched' = [matched EXCEPT ![t] =
                                   IF Matcher.kind = "nil" THEN @
                                   ELSE Append(@, MatcherInput(Replacer, c))]
               /\ b' = [b EXCEPT ![t] = ApplyReplacer(Replacer, c)]
               /\ srcIn' = [srcIn EXCEPT ![t] = Append(@, c)]
          /\ pc' = [pc EXCEPT ![t] = AfterRead]
          /\ UNCHANGED perr
       \/ /\ conn[src(t)] = "open"
          /\ \E e \in {"EOF", "other"} : perr' = [perr EXCEPT ![t] = e]
          /\ pc' = [pc EXCEPT ![t] = "err_check"]
          /\ UNCHANGED <<buff, n, b, srcIn, matched>>
       \/ /\ conn[src(t)] = "closed"
          /\ perr' = [perr EXCEPT ![t] = "other"]
          /\ pc' = [pc EXCEPT ![t] = "err_check"]
          /\ UNCHANGED <<buff, n, b, srcIn, matched>>
    /\ UNCHANGED <<config, codec, listener, defers, dial, conn, closes, erred, sigAttempts,
                   warns, counters, summary, fr, dstOut, mirOut>>

\* AMQPProxy.pipe: frameReader.ReadFrame(); on success
\* UpdateMethodAckToNack, otherwise p.Log.Warn and the raw write.
pipe_Frame(t) ==
    /\ pc[t] = "frame"
    /\ LET r == ReadFrame(FrameInput(t))
       IN  IF r.err = "nil"
           THEN /\ fr' = [fr EXCEPT ![t] = UpdateMethodAckToNack(r.f)]
                /\ pc' = [pc EXCEPT ![t] = "framewrite"]
                /\ UNCHANGED warns
           ELSE /\ fr' = [fr EXCEPT ![t] = r.f]
                /\ warns' = warns + 1
                /\ pc' = [pc EXCEPT ![t] = AfterDecodeError]
    /\ UNCHANGED <<config, codec, listener, defers, dial, conn, closes, erred, sigAttempts,
                   perr, counters, summary, buff, n, b, streams>>

\* AMQPProxy.pipe: err = frameReader.Write(dst), three writes on dst; on an
\* error p.Log.Warn and return, otherwise on to the counter with n as read.
pipe_FrameWrite(t) ==
    /\ pc[t] = "framewrite"
    /\ LET parts == methodFrame_write(fr[t])
       IN  \E k \in 0..Len(parts) :
             /\ conn[dst(t)] = "closed" => k = 0
             /\ dstOut' = [dstOut EXCEPT ![t] = @ \o SubSeq(parts, 1, k)]
             /\ IF k = Len(parts)
                THEN /\ pc' = [pc EXCEPT ![t] = "count"]
                     /\ UNCHANGED warns
                ELSE /\ warns' = warns + 1
                     /\ pc' = [pc EXCEPT ![t] = AfterFrameWriteError]
    /\ UNCHANGED <<config, codec, listener, defers, dial, conn, closes, erred, sigAttempts,
                   perr, counters, summary, locals, srcIn, mirOut, matched>>

\* n, err = dst.Write(b); on an error p.err("Write failed") and return.
pipe_Write(t) ==
    /\ pc[t] = "write"
    /\ \/ /\ conn[dst(t)] = "open"
          /\ dstOut' = [dstOut EXCEPT ![t] = Append(@, b[t])]
          /\ n' = [n EXCEPT ![t] = Len(b[t])]
          /\ pc' = [pc EXCEPT ![t] = AfterWrite(t)]
          /\ UNCHANGED perr
       \/ /\ conn[dst(t)] = "open"
          /\ \E k \in PartialWrites(b[t]) :
               /\ dstOut' = [dstOut EXCEPT ![t] =
                                 IF k = 0 THEN @ ELSE Append(@, SubSeq(b[t], 1, k))]
               /\ n' = [n EXCEPT ![t] = k]
          /\ perr' = [perr EXCEPT ![t] = "other"]
          /\ pc' = [pc EXCEPT ![t] = "err_check"]
       \/ /\ conn[dst(t)] = "closed"
          /\ n' = [n EXCEPT ![t] = 0]
          /\ perr' = [perr EXCEPT ![t] = "other"]
          /\ pc' = [pc EXCEPT ![t] = "err_check"]
          /\ UNCHANGED dstOut
    /\ UNCHANGED <<config, codec, listener, defers, dial, conn, closes, erred, sigAttempts,
                   warns, counters, summary, buff, b, fr, srcIn, mirOut,
                   matched>>

\* Proxy.pipe: if mirror != nil { _, err = mirror.Write(b); on an error
\* p.Log.Warn("Write to mirror failed") }
pipe_Mirror(t) ==
    /\ pc[t] = "mirror"
    /\ \E ok \in BOOLEAN :
         /\ ok => conn[mirror(t)] = "open"
         /\ mirOut' = [mirOut EXCEPT ![t] = IF ok THEN Append(@, b[t]) ELSE @]
         /\ warns' = IF ok THEN warns ELSE warns + 1
         /\ pc' = [pc EXCEPT ![t] = AfterMirrorWrite(ok)]
    /\ UNCHANGED <<config, codec, listener, defers, dial, conn, closes, erred, sigAttempts,
                   perr, counters, summary, locals, srcIn, dstOut, matched>>

\* if islocal { p.sentBytes += uint64(n) } else { p.receivedBytes += uint64(n) }
\* and back to the top of the loop.
pipe_Count(t) ==
    /\ pc[t] = "count"
    /\ IF islocal(t)
       THEN /\ sentBytes' = sentBytes + n[t]
            /\ UNCHANGED receivedBytes
       ELSE /\ receivedBytes' = receivedBytes + n[t]
            /\ UNCHANGED sentBytes
    /\ n' = [n EXCEPT ![t] = 0]
    /\ b' = [b EXCEPT ![t] = <<>>]
    /\ fr' = [fr EXCEPT ![t] = NoFrame]
    /\ pc' = [pc EXCEPT ![t] = "read"]
    /\ UNCHANGED <<config, codec, listener, defers, dial, conn, closes, erred, sigAttempts,
                   perr, warns, summary, buff, streams>>

(* --------------------------- specifications ---------------------------- *)

StartNext ==
    \/ Start_Dial
    \/ Start_DialMirrorReq
    \/ Start_DialMirrorResp
    \/ Start_GoLocal
    \/ Start_GoRemote
    \/ Start_Recv
    \/ Start_Summary
    \/ Start_Return

TaskNext(t) ==
    \/ pipe_Read(t)
    \/ pipe_Frame(t)
    \/ pipe_FrameWrite(t)
    \/ pipe_Write(t)
    \/ pipe_Mirror(t)
    \/ pipe_Count(t)

Next ==
    \/ StartNext
    \/ \E p \in Procs : err_Check(p) \/ err_Set(p)
    \/ \E t \in Tasks : TaskNext(t)

Spec == Init /\ [][Next]_vars

\* Proxy alone: pipe decodes no frame.
ProxyNext ==
    \/ StartNext
    \/ \E p \in Procs : err_Check(p) \/ err_Set(p)
    \/ \E t \in Tasks :
         \/ pipe_Read(t)
         \/ pipe_Write(t)
         \/ pipe_Mirror(t)
         \/ pipe_Count(t)

ProxySpec == ProxyInit /\ [][ProxyNext]_vars

\* AMQPProxy alone: Start dials no mirror and pipe writes to none.
AmqpNext ==
    \/ Start_Dial
    \/ Start_GoLocal
    \/ Start_GoRemote
    \/ Start_Recv
    \/ Start_Summary
    \/ Start_Return
    \/ \E p \in Procs : err_Check(p) \/ err_Set(p)
    \/ \E t \in Tasks :
         \/ pipe_Read(t)
         \/ pipe_Frame(t)
         \/ pipe_FrameWrite(t)
         \/ pipe_Write(t)
         \/ pipe_Count(t)

AmqpSpec == AmqpInit /\ [][AmqpNext]_vars

\* A relay task waits on its peer while it reads, writes or mirrors on a
\* connection that is still open; on a closed connection the call returns.
WaitsOnPeer(t) ==
    \/ pc[t] = "read" /\ conn[src(t)] = "open"
    \/ pc[t] \in {"write", "framewrite"} /\ conn[dst(t)] = "open"
    \/ pc[t] = "mirror" /\ conn[mirror(t)] = "open"

\* The Go scheduler runs every goroutine that can run; a dial returns.
FairSpec ==
    /\ Spec
    /\ WF_vars(StartNext)
    /\ \A p \in Procs : WF_vars(err_Check(p) \/ err_Set(p))
    /\ \A t \in Tasks : WF_vars(~WaitsOnPeer(t) /\ TaskNext(t))

(* ------------------------- the codec on its own ------------------------ *)

\* Delivery tags, channels and messages a frame is built from.
Tags == {0, 42, 256, 2147483647}
Channels == {0, 1, 65535}
Acks == [kind : {"BasicAck"}, DeliveryTag : Tags, Multiple : BOOLEAN]
Nacks == [kind : {"BasicNack"}, DeliveryTag : Tags, Multiple : BOOLEAN,
          Requeue : BOOLEAN]

\* &methodFrame{ChannelId: ch, ClassId: .., MethodId: .., Method: m} with the
\* ids of its message.
MethodFrameOf(ch, m) ==
    [kind |-> "method", ChannelId |-> ch, ClassId |-> MethodIdOf(m)[1],
     MethodId |-> MethodIdOf(m)[2], Method |-> m]

\* The states FrameReader.f can be in: nil, a method frame with a message,
\* a method frame whose Method is nil.
FrameStates ==
    {NoFrame}
        \cup {MethodFrameOf(ch, m) : ch \in Channels, m \in Acks \cup Nacks}
        \cup {[kind |-> "method", ChannelId |-> ch, ClassId |-> 60,
               MethodId |-> 80, Method |-> NoMethod] : ch \in Channels}

\* The engine is not run.
EngineOff ==
    /\ variant = "AMQPProxy"
    /\ tlsUnwrapp = FALSE
    /\ mReqAddr = FALSE
    /\ mRespAddr = FALSE
    /\ Replacer = NilFunc
    /\ Matcher = NilFunc
    /\ pc = [p \in Procs |-> "off"]
    /\ defers = <<>>
    /\ dial = [c \in Conns \ {"lconn"} |-> "pending"]
    /\ conn = [c \in Conns |-> "nil"]
    /\ closes = [c \in Conns |-> 0]
    /\ erred = FALSE
    /\ sigAttempts = {}
    /\ perr = [p \in Procs |-> "nil"]
    /\ warns = 0
    /\ sentBytes = 0
    /\ receivedBytes = 0
    /\ summary = <<>>
    /\ buff = [t \in Tasks |-> <<>>]
    /\ n = [t \in Tasks |-> 0]
    /\ b = [t \in Tasks |-> <<>>]
    /\ fr = [t \in Tasks |-> NoFrame]
    /\ srcIn = [t \in Tasks |-> <<>>]
    /\ dstOut = [t \in Tasks |-> <<>>]
    /\ mirOut = [t \in Tasks |-> <<>>]
    /\ matched = [t \in Tasks |-> <<>>]
    /\ feed = {}

\* A frame state, before anything is written or read.
CodecInit ==
    /\ EngineOff
    /\ MainOff
    /\ cpc = "new"
    /\ mf \in FrameStates
    /\ wire = <<>>
    /\ rf = NoFrame
    /\ rerr = "nil"
    /\ taken = 0
    /\ out = <<>>

\* methodFrame.write(w) into a buffer: an error when Method is nil, the
\* bytes of writeFrame otherwise.
Codec_Write ==
    /\ cpc = "new"
    /\ mf.kind = "method"
    /\ IF mf.Method.kind = "nil"
       THEN /\ rerr' = "missing method"
            /\ cpc' = "failed"
            /\ UNCHANGED wire
       ELSE /\ wire' = Flatten(methodFrame_write(mf))
            /\ cpc' = "written"
            /\ UNCHANGED rerr
    /\ UNCHANGED <<engine, listener, mf, rf, taken, out>>

\* A frame of the given type on channel 1 with the given payload.
RawFrame(typ, payload) ==
    <<typ>> \o BigEndian(1, 2) \o BigEndian(Len(payload), 4) \o payload
        \o <<frameEnd>>

\* The method frame the given message is sent in, on channel 1.
SentFrame(m) == Flatten(methodFrame_write(MethodFrameOf(1, m)))

\* The byte strings a FrameReader is given by a peer: frames of every type
\* the code names and of some it does not, method frames of a class or a
\* method it does not know, a frame cut short, a frame with a wrong end
\* byte, and a frame followed by more bytes.
WireInputs ==
    {RawFrame(typ, <<7, 7>>) : typ \in {0, frameHeader, frameBody,
                                         frameHeartbeat, 9, 255}}
        \cup {Heartbeat, BadEndFrame, AckThenByte}
        \cup {SubSeq(AckFrame, 1, k) : k \in {0, 5, 7, 10, 15, 20}}
        \cup {[AckFrame EXCEPT ![9] = 50], [AckFrame EXCEPT ![11] = 81]}
        \cup {SentFrame(m) : m \in Acks \cup Nacks}

\* The reader is built on bytes a peer has sent instead of a frame written
\* here: NewFrameReader(bytes.NewReader(wire)).
Codec_Receive ==
    /\ cpc = "new"
    /\ mf = NoFrame
    /\ \E w \in WireInputs : wire' = w
    /\ cpc' = "written"
    /\ UNCHANGED <<engine, listener, mf, rf, rerr, taken, out>>

\* NewFrameReader(bytes.NewReader(wire)).ReadFrame()
Codec_ReadFrame ==
    /\ cpc = "written"
    /\ LET r == ReadFrame(wire)
       IN  /\ rf' = r.f
           /\ rerr' = r.err
    /\ taken' = BytesRead(wire)
    /\ cpc' = "read"
    /\ UNCHANGED <<engine, listener, mf, wire, out>>

\* The frame state UpdateMethodAckToNack finds: the frame just decoded, or
\* the state mf of a reader that has read nothing.
Held == IF cpc = "read" THEN rf ELSE mf

\* FrameReader.UpdateMethodAckToNack()
Codec_Update ==
    /\ cpc \in {"new", "read"}
    /\ rf' = UpdateMethodAckToNack(Held)
    /\ cpc' = "updated"
    /\ UNCHANGED <<engine, listener, mf, wire, rerr, taken, out>>

\* FrameReader.Write(w) into a buffer, on the frame the reader holds after
\* UpdateMethodAckToNack: methodFrame.write, an error when Method is nil.
Codec_Rewrite ==
    /\ cpc = "updated"
    /\ rf.kind = "method"
    /\ IF rf.Method.kind = "nil"
       THEN /\ rerr' = "missing method"
            /\ UNCHANGED out
       ELSE /\ out' = Flatten(methodFrame_write(rf))
            /\ UNCHANGED rerr
    /\ cpc' = "rewritten"
    /\ UNCHANGED <<engine, listener, mf, wire, rf, taken>>

CodecNext ==
    \/ Codec_Write
    \/ Codec_Receive
    \/ Codec_ReadFrame
    \/ Codec_Update
    \/ Codec_Rewrite

CodecSpec == CodecInit /\ [][CodecNext]_vars

(* --------------------------- the main program -------------------------- *)
(* main of cmd/tcp-proxy: it builds the Matcher and the Replacer from its  *)
(* flags, then accepts connections for ever and starts one engine per      *)
(* connection (go p.Start()).  The engines run Start, err and pipe as      *)
(* above; here the steps of one engine that touch only that engine are     *)
(* taken together: Start up to its wait, one turn of the loop of pipe,     *)
(* err() up to its send, Start's receive with the sender's erred = true    *)
(* and the deferred Close calls.                                           *)

\* The command lines main is run with, as <<-match, -replace>>: both unset;
\* both well-formed ('a', 'a~xx'); and -match '(' , which does not compile,
\* with a -replace that is not pattern~replacement ('a', 'a~x~x') or whose
\* pattern does not compile ('(~x').
CommandLines ==
    {<< <<>>, <<>> >>,
     << <<97>>, <<97, 126, 120, 120>> >>,
     << <<40>>, <<97>> >>,
     << <<40>>, <<97, 126, 120, 126, 120>> >>,
     << <<40>>, <<40, 126, 120>> >>}

\* The chunk a peer of the main program's engines sends: "ab".
MainChunk == <<97, 98>>

\* How often the byte x occurs in s.
Count(s, x) == Cardinality({i \in 1..Len(s) : s[i] = x})

RECURSIVE Split(_, _)
\* strings.Split(s, sep) for a one-byte separator.
Split(s, sep) ==
    IF Count(s, sep) = 0 THEN <<s>>
    ELSE LET i == CHOOSE k \in 1..Len(s) :
                      s[k] = sep /\ \A j \in 1..(k - 1) : s[j] # sep
         IN  <<SubSeq(s, 1, i - 1)>> \o Split(SubSeq(s, i + 1, Len(s)), sep)

\* Whether regexp.Compile returns an error, for patterns made of literal
\* bytes and parentheses: a parenthesis left open or closed too often.
CompileFails(pat) == Count(pat, 40) # Count(pat, 41)

\* createMatcher
createMatcher(m) ==
    IF m = <<>> THEN NilFunc
    ELSE IF CompileFails(m) THEN NilFunc
    ELSE [kind |-> "regexp", re |-> m[1]]

\* Fault: every part after the pattern is taken, a third one is not refused.
createReplacer_Lenient(r) ==
    IF r = <<>> THEN NilFunc
    ELSE LET parts == Split(r, 126)
         IN  IF Len(parts) < 2 THEN NilFunc
             ELSE IF CompileFails(parts[1]) THEN NilFunc
             ELSE [kind |-> "regexp", re |-> parts[1][1], repl |-> parts[2]]

\* createReplacer
createReplacer(r) ==
    IF r = <<>> THEN NilFunc
    ELSE LET parts == Split(r, 126)
         IN  IF Len(parts) # 2 THEN NilFunc
             ELSE IF CompileFails(parts[1]) THEN NilFunc
             ELSE [kind |-> "regexp", re |-> parts[1][1], repl |-> parts[2]]

\* Fault: one signal channel for all engines.
errsigOf_Shared(e) == 0

\* The channel of engine e: New makes one per engine (errsig: make(chan bool)).
errsigOf(e) == e

\* proxy.New(conn, laddr, raddr), then p.Matcher = matcher and
\* p.Replacer = replacer: the engine takes over the accepted connection h.
NewEngine(h) ==
    [lconn |-> h, rconn |-> 0, Matcher |-> matcher, Replacer |-> replacer,
     start |-> "dial", task |-> [t \in Tasks |-> "idle"], erred |-> FALSE,
     sentBytes |-> 0, receivedBytes |-> 0, matched |-> 0,
     rd |-> [t \in Tasks |-> <<>>], wr |-> [t \in Tasks |-> <<>>]]

\* The connection a relay task of engine e reads from / writes to.
srcOf(e, t) == IF t = "l2r" THEN engines[e].lconn ELSE engines[e].rconn
dstOf(e, t) == IF t = "l2r" THEN engines[e].rconn ELSE engines[e].lconn

\* Where a relay task is after err(): out of pipe if erred was set, parked
\* at its send otherwise.
ErrOutcome(e) == IF engines[e].erred THEN "exited" ELSE "err_send"

\* Chunks read so far by all engines.
MainChunksRead ==
    LET upto[i \in 0..Len(engines)] ==
            IF i = 0 THEN 0
            ELSE upto[i - 1] + Len(engines[i].rd["l2r"])
                             + Len(engines[i].rd["r2l"])
    IN  upto[Len(engines)]

\* The flags as given on the command line; nothing is accepted yet.
MainInit ==
    /\ EngineOff
    /\ CodecOff
    /\ mainPc = "config"
    /\ \E cl \in CommandLines :
         /\ match = cl[1]
         /\ replace = cl[2]
    /\ matcher = NilFunc
    /\ replacer = NilFunc
    /\ connid = 0
    /\ acceptFailed = FALSE
    /\ engines = <<>>
    /\ hstate = [h \in Handles |-> "nil"]

\* matcher := createMatcher(*match); replacer := createReplacer(*replace)
main_Config ==
    /\ mainPc = "config"
    /\ matcher' = createMatcher(match)
    /\ replacer' = createReplacer(replace)
    /\ mainPc' = "accept"
    /\ UNCHANGED <<engine, codec, match, replace, connid, acceptFailed,
                   engines, hstate>>

\* conn, err := listener.AcceptTCP() with an error: Warn and continue.
main_AcceptError ==
    /\ mainPc = "accept"
    /\ ~acceptFailed
    /\ acceptFailed' = TRUE
    /\ UNCHANGED <<engine, codec, mainPc, match, replace, matcher, replacer,
                   connid, engines, hstate>>

\* AcceptTCP returns a new connection: connid++, the engine is built around
\* it and go p.Start() starts it.
main_Accept ==
    /\ mainPc = "accept"
    /\ Len(engines) < MaxConns
    /\ connid' = connid + 1
    /\ hstate' = [hstate EXCEPT ![Accepted(connid + 1)] = "open"]
    /\ engines' = Append(engines, NewEngine(Accepted(connid + 1)))
    /\ UNCHANGED <<engine, codec, mainPc, match, replace, matcher, replacer,
                   acceptFailed>>

\* Start of engine e up to its wait: the remote dial; on its failure Warn,
\* the deferred lconn.Close() and return; otherwise both relay tasks start.
Engine_Start(e) ==
    /\ engines[e].start = "dial"
    /\ \E ok \in BOOLEAN :
         IF ok
         THEN /\ hstate' = [hstate EXCEPT ![Dialed(e)] = "open"]
              /\ engines' = [engines EXCEPT
                                ![e].rconn = Dialed(e),
                                ![e].start = "wait",
                                ![e].task = [t \in Tasks |-> "read"]]
         ELSE /\ hstate' = [hstate EXCEPT ![engines[e].lconn] = "closed"]
              /\ engines' = [engines EXCEPT ![e].start = "returned"]
    /\ UNCHANGED <<engine, codec, mainPc, match, replace, matcher, replacer,
                   connid, acceptFailed>>

\* One turn of the loop of pipe in engine e: src.Read; the Matcher, if there
\* is one; the Replacer, if there is one; dst.Write(b); the counter of this
\* direction grows by the n of the write.  A failing Read or Write ends the
\* turn with err() up to its send.
Engine_Relay(e, t) ==
    /\ engines[e].task[t] = "read"
    /\ \/ engines' = [engines EXCEPT ![e].task[t] = ErrOutcome(e)]
       \/ /\ hstate[srcOf(e, t)] = "open"
          /\ MainChunksRead < MaxMainChunks
          /\ LET b1 == ApplyReplacer(engines[e].Replacer, MainChunk)
                 called == IF engines[e].Matcher.kind = "nil" THEN 0 ELSE 1
             IN  \/ /\ hstate[dstOf(e, t)] = "open"
                    /\ engines' = [engines EXCEPT
                           ![e].rd[t] = Append(@, MainChunk),
                           ![e].matched = @ + called,
                           ![e].wr[t] = Append(@, b1),
                           ![e].sentBytes =
                               IF t = "l2r" THEN @ + Len(b1) ELSE @,
                           ![e].receivedBytes =
                               IF t = "r2l" THEN @ + Len(b1) ELSE @]
                 \/ engines' = [engines EXCEPT
                           ![e].rd[t] = Append(@, MainChunk),
                           ![e].matched = @ + called,
                           ![e].task[t] = ErrOutcome(e)]
    /\ UNCHANGED <<engine, codec, mainPc, match, replace, matcher, replacer,
                   connid, acceptFailed, hstate>>

\* <-p.errsig of engine e with a send on the same channel: the sender sets
\* erred and leaves pipe; Start returns, which runs the deferred
\* rconn.Close() and lconn.Close().
Engine_Recv(e) ==
    /\ engines[e].start = "wait"
    /\ \E e2 \in 1..Len(engines), t \in Tasks :
         /\ errsigOf(e2) = errsigOf(e)
         /\ engines[e2].task[t] = "err_send"
         /\ engines' = [engines EXCEPT ![e].start = "returned",
                                       ![e2].task[t] = "exited",
                                       ![e2].erred = TRUE]
    /\ hstate' = [hstate EXCEPT ![engines[e].rconn] = "closed",
                                ![engines[e].lconn] = "closed"]
    /\ UNCHANGED <<engine, codec, mainPc, match, replace, matcher, replacer,
                   connid, acceptFailed>>

MainNext ==
    \/ main_Config
    \/ main_AcceptError
    \/ main_Accept
    \/ \E e \in 1..Len(engines) :
         \/ Engine_Start(e)
         \/ Engine_Recv(e)
         \/ \E t \in Tasks : Engine_Relay(e, t)

MainSpec == MainInit /\ [][MainNext]_vars

(* ------------------------------ properties ----------------------------- *)

ErrPcs == {"err_check", "err_send", "err_set"}

\* The engines whose Start logs a failed dial itself.
LoggingEngines == {"Proxy", "AMQPProxy"}

RECURSIVE SumLen(_)
\* Total number of bytes of a sequence of chunks.
SumLen(cs) == IF Len(cs) = 0 THEN 0 ELSE Len(cs[1]) + SumLen(Tail(cs))

\* The counter a relay task adds to.
Counter(t) == IF islocal(t) THEN sentBytes ELSE receivedBytes

\* What dst has received once every chunk read so far by t was forwarded by
\* the raw path: the Replacer's output for each chunk, in order.
Forwarded(t) ==
    [i \in 1..Len(srcIn[t]) |-> ApplyReplacer(Replacer, srcIn[t][i])]

\* A relay task that can still add to its counter: it is in its loop.
InLoop(t) == pc[t] \in {"read", "frame", "framewrite", "write", "mirror", "count"}

\* C1: after a successful dial in Proxy / AMQPProxy, whenever both relay
\* tasks have failed (left pipe), Start's wait on errsig has been satisfied
\* (Start is not left waiting), and no owned connection is closed twice.
C1_StartReturnsWhenBothFail ==
    (variant \in LoggingEngines /\ dial["rconn"] = "ok") =>
        /\ (\A t \in Tasks : pc[t] = "exited") => pc["start"] # "wait"
        /\ \A c \in Conns : closes[c] <= 1

\* C2: the failure latch of Proxy / AMQPProxy is single-fire: at most one
\* relay task ever reaches the send on errsig.
C2_LatchSingleFire ==
    variant \in LoggingEngines => Cardinality(sigAttempts \cap Tasks) <= 1

\* C3: in Proxy / AMQPProxy, once the latch has fired and Start has closed
\* the connections and returned, no relay task is parked on the send to
\* errsig (Start was the only receiver, so a task parked there never exits).
C3_NoTaskParkedOnSend ==
    (variant \in LoggingEngines /\ pc["start"] = "returned") =>
        \A t \in Tasks : pc[t] # "err_send"

\* C4: in Proxy / AMQPProxy, when the remote dial (tls.Dial or net.DialTCP)
\* fails, Start is returning or has returned, no relay task was started,
\* nothing was sent on errsig, exactly one warning was logged, and once Start
\* has returned the local connection is closed (by one Close).
C4_RemoteDialFailure ==
    (variant \in LoggingEngines /\ dial["rconn"] = "failed") =>
        /\ pc["start"] \in {"return", "returned"}
        /\ \A t \in Tasks : pc[t] = "idle"
        /\ sigAttempts = {}
        /\ warns = 1
        /\ pc["start"] = "returned" =>
               /\ conn["lconn"] = "closed"
               /\ closes["lconn"] = 1
               /\ conn["rconn"] = "nil"

C4_Witness ==
    /\ variant \in LoggingEngines
    /\ tlsUnwrapp
    /\ dial["rconn"] = "failed"
    /\ pc["start"] = "returned"

\* C5: in the older engines (src/proxy/proxy.go and the older main), when the
\* remote dial fails, Start eventually returns with the local connection
\* closed.
C5_OldStartReturnsAfterDialFailure ==
    (~(variant \in LoggingEngines) /\ dial["rconn"] = "failed")
        ~> (pc["start"] = "returned" /\ conn["lconn"] = "closed")

\* C6: in Proxy, when the remote dial succeeded and the dial of a configured
\* mirror fails, one warning is logged, no relay task is started, nothing is
\* sent on errsig, and once Start has returned the local connection, the
\* remote connection and a mirror dialed before are all closed.
C6_MirrorDialFailure ==
    (variant = "Proxy" /\ \E m \in {"mReqConn", "mRespConn"} : dial[m] = "failed") =>
        /\ dial["rconn"] = "ok"
        /\ pc["start"] \in {"return", "returned"}
        /\ \A t \in Tasks : pc[t] = "idle"
        /\ sigAttempts = {}
        /\ warns = 1
        /\ pc["start"] = "returned" =>
               /\ conn["lconn"] = "closed"
               /\ conn["rconn"] = "closed"
               /\ \A m \in {"mReqConn", "mRespConn"} :
                      dial[m] = "ok" => conn[m] = "closed"

C6_Witness ==
    /\ variant = "Proxy"
    /\ dial["mReqConn"] = "ok"
    /\ dial["mRespConn"] = "failed"
    /\ pc["start"] = "returned"

\* C7: whenever Start has returned, every connection the engine owns (the
\* local one and each one dialed) has been closed.
C7_AllOwnedClosedOnReturn ==
    pc["start"] = "returned" =>
        /\ conn["lconn"] = "closed"
        /\ \A c \in Conns \ {"lconn"} : dial[c] = "ok" => conn[c] = "closed"
        /\ \A c \in Conns : conn[c] # "open"

C7_Witness ==
    /\ pc["start"] = "returned"
    /\ erred
    /\ \A c \in Conns : conn[c] = "closed"

\* C8: mirror isolation in Proxy.pipe.  Whatever a write to the mirror
\* returns, the step leaves the latch alone (nothing sent, erred unchanged),
\* the task goes on to its counter and the next read, and dst already holds
\* the chunk; and at every point of the loop after the dst write, dst has
\* received every chunk read so far, whatever earlier mirror writes did.
C8_MirrorStep ==
    \A t \in Tasks :
        (pc[t] = "mirror" /\ pc'[t] # "mirror") =>
            /\ pc'[t] = "count"
            /\ sigAttempts' = sigAttempts
            /\ erred' = erred
            /\ dstOut'[t] = dstOut[t]

C8_Delivered ==
    \A t \in Tasks :
        (variant = "Proxy" /\ pc[t] \in {"mirror", "count", "read"}) =>
            dstOut[t] = Forwarded(t)

C8_MirrorIsolation == [][C8_MirrorStep /\ C8_Delivered]_vars

\* Two chunks delivered to dst although both mirror writes failed.
C8_Witness ==
    \E t \in Tasks :
        /\ HasMirror(t)
        /\ Len(dstOut[t]) = 2
        /\ mirOut[t] = <<>>
        /\ pc[t] = "read"
        /\ pc["start"] = "wait"

\* C9: in Proxy / AMQPProxy each counter grows by the bytes read from the
\* source: whenever a relay task is at the top of its loop, its counter
\* equals the number of bytes it has read, whatever the Replacer.
C9_CountsBytesRead ==
    variant \in LoggingEngines =>
        \A t \in Tasks : pc[t] = "read" => Counter(t) = SumLen(srcIn[t])

\* C10: in Proxy / AMQPProxy, Start reads the counters only when no relay
\* task can still add to them, so the summary it reports equals the counters
\* from then on.
C10_SummaryAfterTasksStopped ==
    variant \in LoggingEngines =>
        /\ pc["start"] = "summary" => \A t \in Tasks : ~InLoop(t)
        /\ summary # <<>> => summary = <<sentBytes, receivedBytes>>

\* C11: UpdateMethodAckToNack turns every BasicAck method frame with
\* delivery tag t and multiple flag m into a method frame on the same channel
\* whose message is BasicNack{t, m, Requeue false} and whose method id field
\* is 120; every other frame state (nil, a method frame with another message
\* or with none) is left as it was.
C11_Rewrite ==
    cpc' = "updated" =>
        IF Held.kind = "method" /\ Held.Method.kind = "BasicAck"
        THEN /\ rf'.kind = "method"
             /\ rf'.ChannelId = Held.ChannelId
             /\ rf'.MethodId = 120
             /\ rf'.Method = [kind |-> "BasicNack",
                              DeliveryTag |-> Held.Method.DeliveryTag,
                              Multiple |-> Held.Method.Multiple,
                              Requeue |-> FALSE]
        ELSE rf' = Held

C11_AckToNackRewrite == [][C11_Rewrite]_vars

\* A decoded BasicAck with the multiple flag set was rewritten.
C11_Witness ==
    /\ cpc = "updated"
    /\ wire # <<>>
    /\ mf.kind = "method"
    /\ mf.Method.kind = "BasicAck"
    /\ mf.Method.Multiple
    /\ mf.Method.DeliveryTag = 2147483647
    /\ rf.Method.kind = "BasicNack"

\* C12: for every BasicAck and every BasicNack method frame, the bytes of
\* methodFrame.write are decoded by ReadFrame without error into a frame
\* equal to the one written.
C12_RoundTrip ==
    (cpc = "read" /\ mf.kind = "method") => (rerr = "nil" /\ rf = mf)

\* The frame of the encoding scenario: BasicAck{42, false} on channel 0.
ScenarioFrame ==
    MethodFrameOf(0, [kind |-> "BasicAck", DeliveryTag |-> 42,
                      Multiple |-> FALSE])

\* C13, as stated: the scenario frame is written as the 22 bytes
\* 01 00 00 00 00 00 00 09 00 3C 00 50 00 00 00 00 00 00 00 2A 00 CE.
C13_Stated ==
    (cpc = "written" /\ mf = ScenarioFrame) =>
        wire = <<1, 0, 0, 0, 0, 0, 0, 9, 0, 60, 0, 80,
                 0, 0, 0, 0, 0, 0, 0, 42, 0, 206>>

\* C13, amended: the scenario frame is written as the 21 bytes
\* 01 00 00 00 00 00 0D 00 3C 00 50 00 00 00 00 00 00 00 2A 00 CE; the size
\* field counts class id, method id and message, 13 bytes.
C13_Encoding ==
    (cpc = "written" /\ mf = ScenarioFrame) =>
        wire = <<1, 0, 0, 0, 0, 0, 13, 0, 60, 0, 80,
                 0, 0, 0, 0, 0, 0, 0, 42, 0, 206>>

C13_Witness ==
    /\ cpc = "written"
    /\ mf = ScenarioFrame
    /\ Len(wire) = 21

\* The last element of a non-empty sequence.
Last(s) == s[Len(s)]

\* Whether the byte string c is exactly one well-formed method frame: it
\* decodes, and its length is header + size field + end marker.
IsOneFrame(c) ==
    /\ Len(c) >= 7
    /\ Len(c) = 7 + Uint(SubSeq(c, 4, 7)) + 1
    /\ ReadFrame(c).err = "nil"

\* What dst is to receive for the chunk c (the bytes read, after the
\* Replacer): the rewritten frame re-encoded when c is exactly one frame, c
\* itself otherwise.
Expected(c) ==
    IF IsOneFrame(c)
    THEN Flatten(methodFrame_write(UpdateMethodAckToNack(ReadFrame(c).f)))
    ELSE c

\* C14: in AMQPProxy.pipe, whenever a relay task is back at the top of its
\* loop, dst has received, for each chunk read, the re-encoded rewritten
\* frame if the chunk after the Replacer is exactly one well-formed method
\* frame and the chunk unchanged otherwise: no byte read is dropped.
C14_RewriteOnlyWholeFrames ==
    variant = "AMQPProxy" =>
        \A t \in Tasks :
            pc[t] = "read" =>
                Flatten(dstOut[t]) =
                    Flatten([i \in 1..Len(srcIn[t]) |->
                                Expected(ApplyReplacer(Replacer, srcIn[t][i]))])

\* C15: in AMQPProxy.pipe a chunk whose decode fails stays a matter of that
\* chunk: the step that finds the error goes on to the raw write with the
\* latch untouched, nothing read and nothing written; at the raw write the
\* task holds that chunk's bytes; and a raw write that succeeds delivers
\* exactly those bytes before the task can read again.
C15_DecodeStep ==
    \A t \in Tasks :
        (pc[t] = "frame" /\ pc'[t] # "frame"
            /\ ReadFrame(FrameInput(t)).err # "nil") =>
                /\ pc'[t] = "write"
                /\ sigAttempts' = sigAttempts
                /\ erred' = erred
                /\ b'[t] = b[t]
                /\ srcIn'[t] = srcIn[t]
                /\ dstOut'[t] = dstOut[t]

C15_RawWrite ==
    \A t \in Tasks :
        (variant = "AMQPProxy" /\ pc[t] = "write") =>
            /\ b[t] = ApplyReplacer(Replacer, Last(srcIn[t]))
            /\ pc'[t] \in {"write", "count", "err_check"}
            /\ pc'[t] = "count" =>
                   /\ dstOut'[t] = Append(dstOut[t], b[t])
                   /\ srcIn'[t] = srcIn[t]
                   /\ sigAttempts' = sigAttempts
                   /\ erred' = erred

C16_ExitOnlyThroughLatch ==
    variant \in LoggingEngines =>
        \A t \in Tasks : pc[t] = "exited" => (t \in sigAttempts \/ erred)

\* Whether the sequence p is a prefix of the sequence s.
IsPrefix(p, s) == Len(p) <= Len(s) /\ p = SubSeq(s, 1, Len(p))

\* C19: in the plain pipe (every engine but AMQPProxy) a chunk is read only
\* by a task at the top of its loop whose earlier chunks have all been
\* written to dst in full; dst holds the chunks in the order read, each
\* complete except a last one cut short by a write error; and at most one
\* chunk read has not been written yet.
C19_ReadStep ==
    \A t \in Tasks :
        (variant # "AMQPProxy" /\ srcIn'[t] # srcIn[t]) =>
            /\ pc[t] = "read"
            /\ dstOut[t] = Forwarded(t)
            /\ Len(srcIn'[t]) = Len(srcIn[t]) + 1

C19_InFlight ==
    \A t \in Tasks :
        variant # "AMQPProxy" =>
            /\ Len(dstOut[t]) <= Len(srcIn[t])
            /\ Len(srcIn[t]) - Len(dstOut[t]) <= 1
            /\ \A i \in 1..Len(dstOut[t]) :
                   /\ IsPrefix(dstOut[t][i], Forwarded(t)[i])
                   /\ i < Len(srcIn[t]) => dstOut[t][i] = Forwarded(t)[i]

C19_OneChunkInFlight == [][C19_ReadStep /\ C19_InFlight]_vars

\* The second chunk of one direction is in flight, the first is written.
C19_Witness ==
    \E t \in Tasks :
        /\ variant = "ProxyV1"
        /\ pc[t] = "write"
        /\ Len(srcIn[t]) = 2
        /\ srcIn[t][1] # srcIn[t][2]
        /\ dstOut[t] = <<Forwarded(t)[1]>>

\* The pcs of a relay task at which every chunk it has read has been
\* written to dst.
NothingInFlight == {"idle", "read", "mirror", "count"}

\* C20: with no Replacer, in every engine but AMQPProxy, the bytes a relay
\* task has written to dst are a prefix of the bytes it has read from src:
\* all of them when no chunk is in flight, and otherwise lacking at most
\* (part of) the last chunk read.
C20_RelayFidelity ==
    (Replacer = NilFunc /\ variant # "AMQPProxy") =>
        \A t \in Tasks :
            LET r == Flatten(srcIn[t])
                w == Flatten(dstOut[t])
            IN  /\ IsPrefix(w, r)
                /\ Len(r) - Len(w) <=
                       (IF pc[t] \in NothingInFlight \/ srcIn[t] = <<>> THEN 0
                        ELSE Len(Last(srcIn[t])))

\* Three bytes read in two chunks, the first chunk and one byte of the
\* second delivered before the write failed.
C20_Witness ==
    \E t \in Tasks :
        /\ Replacer = NilFunc
        /\ variant = "Proxy"
        /\ srcIn[t] = <<<<99>>, <<97, 98>>>>
        /\ Flatten(dstOut[t]) = <<99, 97>>
        /\ pc[t] = "exited"

\* The connections engine e owns.
Owned(e) == {engines[e].lconn, engines[e].rconn} \ {0}

\* Whether this step changes engine e: its latch, counters, tasks or Start.
Touched(e) == engines'[e] # engines[e]

\* C17: with several engines started by the accept loop, a step changes at
\* most one engine (a dial failure, an I/O error or a latch firing in one
\* engine leaves the latch, the tasks and the counters of every other engine
\* as they were); a connection is closed only by a step of the engine that
\* owns it; no step of an engine changes the state of main, whose loop stays
\* at its accept after an accept error and while engines fail, and accepts
\* as long as connections arrive; and no connection is owned by two engines.
C17_Step ==
    LET E == 1..Len(engines)
    IN  /\ \A e1, e2 \in E : e1 # e2 => ~(Touched(e1) /\ Touched(e2))
        /\ \A h \in Handles :
               (hstate[h] = "open" /\ hstate'[h] # "open") =>
                   \E e \in E : Touched(e) /\ h \in Owned(e)
        /\ (\E e \in E : Touched(e)) =>
               /\ mainPc' = mainPc
               /\ connid' = connid
               /\ acceptFailed' = acceptFailed
               /\ Len(engines') = Len(engines)
        /\ mainPc = "accept" => mainPc' = "accept"

C17_Owned ==
    /\ \A e1, e2 \in 1..Len(engines) :
           e1 # e2 => Owned(e1) \cap Owned(e2) = {}
    /\ (mainPc = "accept" /\ Len(engines) < MaxConns) => ENABLED main_Accept

C17_Isolation == [][C17_Step /\ C17_Owned]_vars

\* After an accept error, the first engine has failed and returned with
\* its connection closed, while the second engine has relayed a chunk and
\* waits with its latch unfired and both its connections open.
C17_Witness ==
    /\ acceptFailed
    /\ Len(engines) = 2
    /\ engines[1].start = "returned"
    /\ engines[2].start = "wait"
    /\ ~engines[2].erred
    /\ engines[2].sentBytes > 0
    /\ hstate[engines[2].lconn] = "open"
    /\ hstate[engines[2].rconn] = "open"
    /\ hstate[engines[1].lconn] = "closed"

\* A -match / -replace flag that is set but malformed: the regex does not
\* compile, or the replace option is not one pattern and one replacement.
MalformedMatch == match # <<>> /\ CompileFails(match)
MalformedReplace ==
    /\ replace # <<>>
    /\ \/ Count(replace, 126) # 1
       \/ CompileFails(Split(replace, 126)[1])

\* C18: main builds the Matcher and the Replacer before it accepts anything
\* and goes on to its accept loop whatever the flags are; a malformed match
\* flag gives a nil Matcher, which no relay task ever calls; a malformed
\* replace flag gives a nil Replacer, with which every relay task writes the
\* chunks it read unchanged.
C18_ConfigErrors ==
    /\ mainPc \in {"config", "accept"}
    /\ mainPc = "config" =>
           /\ engines = <<>>
           /\ connid = 0
           /\ \A h \in Handles : hstate[h] = "nil"
    /\ (mainPc = "accept" /\ MalformedMatch) =>
           /\ matcher = NilFunc
           /\ \A e \in 1..Len(engines) :
                  engines[e].Matcher = NilFunc /\ engines[e].matched = 0
    /\ (mainPc = "accept" /\ MalformedReplace) =>
           /\ replacer = NilFunc
           /\ \A e \in 1..Len(engines) :
                  /\ engines[e].Replacer = NilFunc
                  /\ \A t \in Tasks :
                         IsPrefix(engines[e].wr[t], engines[e].rd[t])

\* With -match '(' and -replace 'a~x~x' an engine has relayed "ab" as read.
C18_Witness ==
    /\ MalformedMatch
    /\ Count(replace, 126) = 2
    /\ \E e \in 1..Len(engines) :
           /\ engines[e].wr["l2r"] = <<MainChunk>>
           /\ engines[e].matched = 0

\* The state of one Proxy.pipe task with respect to the chunks it has read:
\* the Matcher, when there is one, has been called once for every chunk and
\* with that chunk as read; the chunk in flight is the Replacer's output
\* for the last chunk read; and once dst.Write has succeeded, dst holds the
\* Replacer's output for every chunk read.
C21_Pipeline(t) ==
    /\ matched[t] = (IF Matcher = NilFunc THEN <<>> ELSE srcIn[t])
    /\ pc[t] \in {"write", "mirror", "count"} =>
            b[t] = ApplyReplacer(Replacer, Last(srcIn[t]))
    /\ pc[t] \in {"mirror", "count"} => dstOut[t] = Forwarded(t)

\* A step that writes to a mirror: the task has a mirror, its write to dst
\* has succeeded, and the mirror receives the bytes dst has just received.
C21_MirrorStep(t) ==
    mirOut'[t] # mirOut[t] =>
        /\ HasMirror(t)
        /\ pc[t] = "mirror"
        /\ Len(dstOut[t]) = Len(srcIn[t])
        /\ mirOut'[t] = Append(mirOut[t], Last(dstOut[t]))
        /\ dstOut'[t] = dstOut[t]

\* C21: in Proxy.pipe, for every chunk read, the Matcher (if any) is called
\* exactly once with the chunk as read, the Replacer is applied exactly once,
\* the bytes written to dst are the Replacer's output, and the bytes written
\* to the mirror are those written to dst, after the write to dst.
C21_PipelineOrder ==
    [][\A t \in Tasks : C21_Pipeline(t)' /\ C21_MirrorStep(t)]_vars

\* C21's case: with a Matcher, a Replacer that changes the chunk and a
\* mirror, a task has read 'ab', written 'xxb' to dst and to its mirror.
C21_Witness ==
    /\ Matcher # NilFunc
    /\ Replacer # NilFunc
    /\ \E t \in Tasks :
         /\ pc[t] = "count"
         /\ Last(srcIn[t]) = <<97, 98>>
         /\ Last(matched[t]) = <<97, 98>>
         /\ Last(dstOut[t]) = <<120, 120, 98>>
         /\ mirOut[t] # <<>>
         /\ Last(mirOut[t]) = <<120, 120, 98>>

\* A relay task that has entered err() for a failed Read: no chunk is in
\* flight (a failed Write enters err() with its chunk still in b).
ReadFailed(t) == pc[t] = "err_check" /\ b[t] = <<>>

\* C22: a Read that returns end-of-stream and a Read that returns any other
\* error take the relay task through the same control flow (to the send on
\* the latch if it has not fired, out of the pipe otherwise), and the only
\* difference is the log: a warning for the other error, none for
\* end-of-stream.
C22_EofAffectsLoggingOnly ==
    [][\A t \in Tasks :
          (ReadFailed(t) /\ pc'[t] # pc[t]) =>
              /\ pc'[t] = (IF erred THEN AfterErr(t) ELSE "err_send")
              /\ warns' = (IF perr[t] = "EOF" THEN warns ELSE warns + 1)]_vars

\* C23: ReadFrame dispatches on the type byte.  Type 1 is parsed as a method
\* frame: a (class, method) pair other than (60, 80) is a decode error, and
\* a parsed frame is accepted exactly when the byte after it is the end
\* marker 0xCE.  Types 2, 3 and 8 are a decode error after the 7 header
\* bytes alone have been read, whatever payload follows; every other type
\* is a decode error.
C23_ReadFrameDispatch ==
    (cpc = "read" /\ Len(wire) >= 7) =>
        LET typ == wire[1]
            known == /\ Uint(SubSeq(wire, 8, 9)) = 60
                     /\ Uint(SubSeq(wire, 10, 11)) = 80
        IN  /\ typ \in {frameHeader, frameBody, frameHeartbeat} =>
                    /\ rerr = "ignore"
                    /\ rf = NoFrame
                    /\ taken = 7
            /\ typ \notin {frameMethod, frameHeader, frameBody,
                            frameHeartbeat} =>
                    /\ rerr = "frame could not be parsed"
                    /\ rf = NoFrame
            /\ (typ = frameMethod /\ Len(wire) >= 11 /\ ~known) =>
                    /\ rerr \in {"unknown class", "unknown method"}
                    /\ rf = NoFrame
            /\ (typ = frameMethod /\ Len(wire) >= 21 /\ known) =>
                    /\ rf.kind = "method"
                    /\ rf.Method.kind = "BasicAck"
                    /\ taken = 21
                    /\ rerr = (IF wire[21] = frameEnd THEN "nil"
                               ELSE "frameEnd fail")

\* C23's case: a heartbeat frame with a payload has been rejected with only
\* its header read.
C23_Witness ==
    /\ cpc = "read"
    /\ wire = RawFrame(frameHeartbeat, <<7, 7>>)
    /\ rerr = "ignore"
    /\ taken = 7

\* A step in which the relay task t, and not the other task u, goes round
\* the end of its loop.
C24_Counts(t, u) ==
    /\ pc[t] = "count"
    /\ pc'[t] = "read"
    /\ pc'[u] = pc[u]

\* C24: sentBytes is changed only by the local->remote task and
\* receivedBytes only by the remote->local task, each leaving the other
\* counter as it was, and no step makes either counter smaller.
C24_Step ==
    /\ sentBytes' >= sentBytes
    /\ receivedBytes' >= receivedBytes
    /\ sentBytes' # sentBytes =>
            (C24_Counts("l2r", "r2l") /\ receivedBytes' = receivedBytes)
    /\ receivedBytes' # receivedBytes =>
            (C24_Counts("r2l", "l2r") /\ sentBytes' = sentBytes)

C24_CounterOwnership == [][C24_Step]_vars

\* C24's case: both relay tasks have added to their counters.
C24_Witness ==
    /\ sentBytes > 0
    /\ receivedBytes > 0
    /\ \A t \in Tasks : pc[t] = "read"

\* The read buffer of a task that has read nothing before the chunk c:
\* make([]byte, 0xffff), all zero, with c at its start.
FreshBuff(c) == c \o [i \in 1..(BuffLen - Len(c)) |-> 0]

\* C25: in AMQPProxy.pipe what is written to dst for a chunk depends on that
\* chunk alone: whether the chunk is taken for a frame, and the frame or the
\* raw bytes about to be written, are those of a task that reads the same
\* chunk as its first, whatever earlier reads have left in the buffer.
C25_RewriteDeterminism ==
    variant = "AMQPProxy" =>
        \A t \in Tasks :
            pc[t] \in {"framewrite", "write"} =>
                LET c == Last(srcIn[t])
                    r == ReadFrame(FreshBuff(c))
                IN  /\ (pc[t] = "framewrite") = (r.err = "nil")
                    /\ pc[t] = "framewrite" =>
                            fr[t] = UpdateMethodAckToNack(r.f)
                    /\ pc[t] = "write" => b[t] = ApplyReplacer(Replacer, c)

\* C26: for every well-formed BasicAck method frame received on a channel,
\* the bytes written after ReadFrame, UpdateMethodAckToNack and Write are a
\* method frame on the same channel, with class id 60 and method id 120 (the
\* id of the message, equal to the MethodId field), a size field that counts
\* the bytes between the 7-byte header and the end marker, the length of the
\* frame received, and 0xCE as the last byte.
C26_RewritePreservesFraming ==
    (cpc = "rewritten" /\ IsOneFrame(wire)) =>
        /\ rerr = "nil"
        /\ Len(out) = Len(wire)
        /\ out[1] = frameMethod
        /\ SubSeq(out, 2, 3) = SubSeq(wire, 2, 3)
        /\ Uint(SubSeq(out, 4, 7)) = Len(out) - 8
        /\ Uint(SubSeq(out, 8, 9)) = 60
        /\ Uint(SubSeq(out, 10, 11)) = 120
        /\ rf.MethodId = 120
        /\ out[Len(out)] = frameEnd

\* C26's case: a BasicAck frame with the multiple flag, on a channel other
\* than 0, was decoded, rewritten and written out.
C26_Witness ==
    /\ cpc = "rewritten"
    /\ wire = Flatten(methodFrame_write(MethodFrameOf(65535,
                   [kind |-> "BasicAck", DeliveryTag |-> 256,
                    Multiple |-> TRUE])))
    /\ Len(out) = 21
    /\ SubSeq(out, 2, 3) = <<255, 255>>

====
